---- MODULE Spec2Model ----
(***************************************************************************)
(* CPU sampling/delta engine of metric/cpu/cpu.go: the Monitor that keeps  *)
(* the last CPUMetrics snapshot (Fetch, FetchCores) and the rendering of a *)
(* Metrics pair into an output map (Format, createTotal, fillMetric,       *)
(* cpuMetricTimeDelta).                                                    *)
(*                                                                         *)
(* Numbers.  Tick counters are uint64 in the source; here they live in     *)
(* 0 .. UintMod-1 and every unsigned operation is taken modulo UintMod, so *)
(* that unsigned wrap-around happens exactly where it happens in the code. *)
(* Percentages are float64 in the source; here a percentage is the integer *)
(* number of 1/RoundScale units that metric.Round produces.                *)
(***************************************************************************)
EXTENDS Integers, Sequences, FiniteSets, TLC

VARIABLES
    lastSample,   \* Monitor.lastSample: the stored CPUMetrics snapshot
    lastGood,     \* history: the snapshot of the most recent successful Get
    call,         \* the most recent call: "none", "Fetch", "FetchCores", "Format"
    err,          \* the error the most recent call returned (NoErr for nil)
    metrics,      \* the Metrics values the most recent fetch returned
    fmtArg,       \* the arguments of the most recent Format call
    formatted     \* what the most recent Format returned: <<>> (nil) or <<map>>

vars == <<lastSample, lastGood, call, err, metrics, fmtArg, formatted>>

----------------------------------------------------------------------------
(* Bounds of the model *)

\* largest tick value a counter takes in the Format inputs
MaxTick == 2
\* largest number of cores in a collected snapshot
MaxCores == 2

\* width of the unsigned tick arithmetic (uint64 in the source, narrowed)
UintMod == 2^16
\* metric.Round keeps RoundScale-ths
RoundScale == 100

----------------------------------------------------------------------------
(* opt.Uint: a tagged optional unsigned integer *)

OptUintNone == [exists |-> FALSE, value |-> 0]
OptUintWith(v) == [exists |-> TRUE, value |-> v]
IsZero(o) == ~o.exists
ValueOr(o, d) == IF o.exists THEN o.value ELSE d

RECURSIVE SumOptUint(_)
SumOptUint(s) ==
    IF s = <<>> THEN 0
    ELSE (ValueOr(Head(s), 0) + SumOptUint(Tail(s))) % UintMod

\* a - b on uint64
USub(a, b) == (a - b + UintMod) % UintMod
\* int64(x) of a uint64 x
ToInt64(x) == IF x >= UintMod \div 2 THEN x - UintMod ELSE x

\* metric.Round of the rational num/den (den > 0), in 1/RoundScale units:
\* nearest, halves away from zero
Round(num, den) ==
    LET a == IF num < 0 THEN -num ELSE num
        q == (2 * a * RoundScale + den) \div (2 * den)
    IN  IF num < 0 THEN -q ELSE q

----------------------------------------------------------------------------
(* The data types *)

\* CPU{}: every counter absent
EmptyCPU ==
    [User |-> OptUintNone, Sys |-> OptUintNone, Idle |-> OptUintNone,
     Nice |-> OptUintNone, Irq |-> OptUintNone, Wait |-> OptUintNone,
     SoftIrq |-> OptUintNone, Stolen |-> OptUintNone]

\* CPUInfo{}
ZeroCPUInfo ==
    [ModelName |-> "", ModelNumber |-> "", Mhz |-> 0, PhysicalID |-> 0, CoreID |-> 0]

\* CPUMetrics{}
EmptyCPUMetrics == [totals |-> EmptyCPU, list |-> <<>>, CPUInfo |-> <<>>]

\* Metrics{}
ZeroMetrics ==
    [previousSample |-> EmptyCPU, currentSample |-> EmptyCPU, count |-> 0,
     cpuInfo |-> ZeroCPUInfo, isTotals |-> FALSE]

MetricOpts == [Ticks : BOOLEAN, Percentages : BOOLEAN, NormalizedPercentages : BOOLEAN]

\* errors: a message and the error it wraps ("" for none); NoErr is nil
NoErr == [msg |-> "", wraps |-> ""]
StaleErr == [msg |-> "previous sample is newer than current sample", wraps |-> ""]
FetchErr(cause) == [msg |-> "error fetching CPU metrics", wraps |-> cause]

\* the output key of each counter (the struct tags of CPU)
CategoryField ==
    [user |-> "User", system |-> "Sys", idle |-> "Idle", nice |-> "Nice",
     irq |-> "Irq", iowait |-> "Wait", softirq |-> "SoftIrq", steal |-> "Stolen"]

EmptyMap == [k \in {} |-> 0]

\* CPU.Total
Total(cpu) ==
    SumOptUint(<<cpu.User, cpu.Nice, cpu.Sys, cpu.Idle, cpu.Wait, cpu.Irq,
                 cpu.SoftIrq, cpu.Stolen>>)

----------------------------------------------------------------------------
(* Rendering *)

\* faulty variant: the counter difference is left unsigned
cpuMetricTimeDeltaUnsigned(prev, current, timeDelta, numCPU) ==
    LET cpuDelta == USub(ValueOr(current, 0), ValueOr(prev, 0))
    IN  Round(cpuDelta * numCPU, timeDelta)

cpuMetricTimeDelta(prev, current, timeDelta, numCPU) ==
    LET cpuDelta == ToInt64(USub(ValueOr(current, 0), ValueOr(prev, 0)))
    IN  Round(cpuDelta * numCPU, timeDelta)

\* faulty variant: iowait is subtracted even when the current sample has none
createTotalAlwaysWait(prev, cur, timeDelta, numCPU) ==
    LET idleTime == cpuMetricTimeDelta(prev.Idle, cur.Idle, timeDelta, numCPU)
                    + cpuMetricTimeDelta(prev.Wait, cur.Wait, timeDelta, numCPU)
    IN  Round(numCPU * RoundScale - idleTime, RoundScale)

createTotal(prev, cur, timeDelta, numCPU) ==
    LET idle == cpuMetricTimeDelta(prev.Idle, cur.Idle, timeDelta, numCPU)
        idleTime == IF ~IsZero(cur.Wait)
                    THEN idle + cpuMetricTimeDelta(prev.Wait, cur.Wait, timeDelta, numCPU)
                    ELSE idle
    IN  Round(numCPU * RoundScale - idleTime, RoundScale)

\* faulty variant: norm.pct is emitted under the Percentages switch
fillMetricNormUnderPct(opts, cur, prev, timeDelta, numCPU) ==
    (IF opts.Ticks THEN "ticks" :> ValueOr(cur, 0) ELSE EmptyMap)
    @@ (IF opts.Percentages
        THEN "pct" :> cpuMetricTimeDelta(prev, cur, timeDelta, numCPU) ELSE EmptyMap)
    @@ (IF opts.Percentages
        THEN "norm.pct" :> cpuMetricTimeDelta(prev, cur, timeDelta, 1) ELSE EmptyMap)

fillMetric(opts, cur, prev, timeDelta, numCPU) ==
    (IF opts.Ticks THEN "ticks" :> ValueOr(cur, 0) ELSE EmptyMap)
    @@ (IF opts.Percentages
        THEN "pct" :> cpuMetricTimeDelta(prev, cur, timeDelta, numCPU) ELSE EmptyMap)
    @@ (IF opts.NormalizedPercentages
        THEN "norm.pct" :> cpuMetricTimeDelta(prev, cur, timeDelta, 1) ELSE EmptyMap)

\* faulty variant: a counter of zero ticks is taken for an absent one
reportOptMetricZeroIsAbsent(opts, name, current, previous, timeDelta, norm) ==
    IF ValueOr(current, 0) # 0
    THEN name :> fillMetric(opts, current, previous, timeDelta, norm)
    ELSE EmptyMap

\* the closure reportOptMetric of Format
reportOptMetric(opts, name, current, previous, timeDelta, norm) ==
    IF ~IsZero(current)
    THEN name :> fillMetric(opts, current, previous, timeDelta, norm)
    ELSE EmptyMap

\* faulty variant: the zero CPUInfo is emitted too
infoFieldsNoZeroCheck(metric) ==
    IF ~metric.isTotals
    THEN    "model_number" :> metric.cpuInfo.ModelNumber
         @@ "model_name" :> metric.cpuInfo.ModelName
         @@ "mhz" :> metric.cpuInfo.Mhz
         @@ "core_id" :> metric.cpuInfo.CoreID
         @@ "physical_id" :> metric.cpuInfo.PhysicalID
    ELSE EmptyMap

\* the cpuinfo block of Format
infoFields(metric) ==
    IF ~metric.isTotals /\ metric.cpuInfo # ZeroCPUInfo
    THEN    "model_number" :> metric.cpuInfo.ModelNumber
         @@ "model_name" :> metric.cpuInfo.ModelName
         @@ "mhz" :> metric.cpuInfo.Mhz
         @@ "core_id" :> metric.cpuInfo.CoreID
         @@ "physical_id" :> metric.cpuInfo.PhysicalID
    ELSE EmptyMap

\* the unsigned window delta Format computes
TimeDelta(metric) == USub(Total(metric.currentSample), Total(metric.previousSample))

\* the normalization count Format uses
NormCPU(metric) == IF ~metric.isTotals THEN 1 ELSE metric.count

\* Metrics.Format: [val |-> <<>> (nil) or <<map>>, err |-> error]
Format(metric, opts) ==
    LET timeDelta == TimeDelta(metric)
        normCPU == NormCPU(metric)
        c == metric.currentSample
        p == metric.previousSample
    IN  IF timeDelta <= 0
        THEN [val |-> <<>>, err |-> StaleErr]
        ELSE [val |-> <<
                 (IF opts.Percentages
                  THEN "total.pct" :> createTotal(p, c, timeDelta, normCPU)
                  ELSE EmptyMap)
              @@ (IF opts.NormalizedPercentages
                  THEN "total.norm.pct" :> createTotal(p, c, timeDelta, 1)
                  ELSE EmptyMap)
              @@ reportOptMetric(opts, "user", c.User, p.User, timeDelta, normCPU)
              @@ reportOptMetric(opts, "system", c.Sys, p.Sys, timeDelta, normCPU)
              @@ reportOptMetric(opts, "idle", c.Idle, p.Idle, timeDelta, normCPU)
              @@ reportOptMetric(opts, "nice", c.Nice, p.Nice, timeDelta, normCPU)
              @@ reportOptMetric(opts, "irq", c.Irq, p.Irq, timeDelta, normCPU)
              @@ reportOptMetric(opts, "iowait", c.Wait, p.Wait, timeDelta, normCPU)
              @@ reportOptMetric(opts, "softirq", c.SoftIrq, p.SoftIrq, timeDelta, normCPU)
              @@ reportOptMetric(opts, "steal", c.Stolen, p.Stolen, timeDelta, normCPU)
              @@ infoFields(metric) >>,
              err |-> NoErr]

----------------------------------------------------------------------------
(* The collector (Get) and its outputs *)

\* the two readings the Monitor model's collector reports for a CPU: an
\* earlier one and a later one (more user and idle ticks)
EarlySample == [EmptyCPU EXCEPT !.User = OptUintWith(0), !.Idle = OptUintWith(1)]
LateSample == [EmptyCPU EXCEPT !.User = OptUintWith(1), !.Idle = OptUintWith(2)]
LoadSamples == {EarlySample, LateSample}

InfoOf(i) ==
    [ModelName |-> "cpu", ModelNumber |-> "7", Mhz |-> 1, PhysicalID |-> 0, CoreID |-> i]

\* per-core info: none, or one record per core (that of the second core zero)
InfoLists(n) ==
    {<<>>, [i \in 1..n |-> IF i = 2 THEN ZeroCPUInfo ELSE InfoOf(i)]}

SampleLists(n) == [1..n -> LoadSamples]

\* the snapshots Get may return
Snapshots ==
    UNION {{[totals |-> t, list |-> l, CPUInfo |-> inf] :
              t \in LoadSamples, l \in SampleLists(n), inf \in InfoLists(n)} :
           n \in 0..MaxCores}

Causes == {"EIO", "ENOENT"}

\* Get: a snapshot, or an error
GetResults ==
    {[metric |-> s, err |-> NoErr] : s \in Snapshots}
    \cup {[metric |-> EmptyCPUMetrics, err |-> [msg |-> c, wraps |-> ""]] : c \in Causes}

----------------------------------------------------------------------------
(* The Monitor *)

Init ==
    /\ lastSample = EmptyCPUMetrics
    /\ lastGood = EmptyCPUMetrics
    /\ call = "none"
    /\ err = NoErr
    /\ metrics = <<>>
    /\ fmtArg = <<>>
    /\ formatted = <<>>

\* faulty variant: a snapshot that would render as stale is not stored
FetchStoreSkipStale(old, metric) ==
    IF Total(metric.totals) <= Total(old.totals) THEN old ELSE metric

\* what Fetch stores in m.lastSample
FetchStore(old, metric) == metric

\* faulty variant: previous is read after lastSample was overwritten
FetchResultPrevFromNew(oldLastSample, metric) ==
    [previousSample |-> metric.totals, currentSample |-> metric.totals,
     count |-> Len(metric.list), cpuInfo |-> ZeroCPUInfo, isTotals |-> TRUE]

\* the Metrics value Fetch returns
FetchResult(oldLastSample, metric) ==
    [previousSample |-> oldLastSample.totals, currentSample |-> metric.totals,
     count |-> Len(metric.list), cpuInfo |-> ZeroCPUInfo, isTotals |-> TRUE]

\* faulty variant: lastSample is assigned before the error check
FetchStoreBeforeCheck ==
    \E g \in GetResults :
        /\ call' = "Fetch"
        /\ fmtArg' = <<>>
        /\ formatted' = <<>>
        /\ lastSample' = g.metric
        /\ IF g.err # NoErr
           THEN /\ err' = FetchErr(g.err.msg)
                /\ metrics' = <<ZeroMetrics>>
                /\ UNCHANGED lastGood
           ELSE /\ err' = NoErr
                /\ metrics' = <<FetchResult(lastSample, g.metric)>>
                /\ lastGood' = g.metric

\* Monitor.Fetch
Fetch ==
    \E g \in GetResults :
        /\ call' = "Fetch"
        /\ fmtArg' = <<>>
        /\ formatted' = <<>>
        /\ IF g.err # NoErr
           THEN /\ err' = FetchErr(g.err.msg)
                /\ metrics' = <<ZeroMetrics>>
                /\ UNCHANGED <<lastSample, lastGood>>
           ELSE /\ err' = NoErr
                /\ metrics' = <<FetchResult(lastSample, g.metric)>>
                /\ lastSample' = FetchStore(lastSample, g.metric)
                /\ lastGood' = g.metric

\* faulty variant: previous is taken from the new snapshot
CoreEntryPrevFromNew(last, metric, i) ==
    [currentSample |-> metric.list[i],
     previousSample |-> IF Len(metric.list) > i - 1 THEN metric.list[i] ELSE EmptyCPU,
     count |-> 0,
     cpuInfo |-> IF Len(metric.CPUInfo) # 0 THEN metric.CPUInfo[i] ELSE ZeroCPUInfo,
     isTotals |-> FALSE]

\* entry i (1-based here, core index i-1) of the slice FetchCores builds
CoreEntry(last, metric, i) ==
    [currentSample |-> metric.list[i],
     previousSample |-> IF Len(last.list) > i - 1 THEN last.list[i] ELSE EmptyCPU,
     count |-> 0,
     cpuInfo |-> IF Len(metric.CPUInfo) # 0 THEN metric.CPUInfo[i] ELSE ZeroCPUInfo,
     isTotals |-> FALSE]

\* Monitor.FetchCores
FetchCores ==
    \E g \in GetResults :
        /\ call' = "FetchCores"
        /\ fmtArg' = <<>>
        /\ formatted' = <<>>
        /\ IF g.err # NoErr
           THEN /\ err' = FetchErr(g.err.msg)
                /\ metrics' = <<>>
                /\ UNCHANGED <<lastSample, lastGood>>
           ELSE /\ err' = NoErr
                /\ metrics' = [i \in 1..Len(g.metric.list) |->
                                  CoreEntry(lastSample, g.metric, i)]
                /\ lastSample' = g.metric
                /\ lastGood' = g.metric

\* Metrics.Format, on one of the Metrics values the last fetch returned
FormatCall ==
    \E i \in 1..Len(metrics), opts \in MetricOpts :
        LET r == Format(metrics[i], opts) IN
        /\ call' = "Format"
        /\ fmtArg' = <<i, opts>>
        /\ formatted' = r.val
        /\ err' = r.err
        /\ UNCHANGED <<lastSample, lastGood, metrics>>

Next == Fetch \/ FetchCores \/ FormatCall

Spec == Init /\ [][Next]_vars

----------------------------------------------------------------------------
(* Format as a pure function: every Metrics value of FormatInputs, rendered *)
(* once under every MetricOpts                                              *)

OptTicks == {OptUintNone} \cup {OptUintWith(v) : v \in 0..MaxTick}

CPUFields == {"User", "Sys", "Idle", "Nice", "Irq", "Wait", "SoftIrq", "Stolen"}

\* a sample with user, idle and iowait counters u, i, w
NumericSample(u, i, w) == [EmptyCPU EXCEPT !.User = u, !.Idle = i, !.Wait = w]

\* the sample of a platform that exposes the counters P, each at v ticks
PlatformSample(P, v) ==
    [f \in CPUFields |-> IF f \in P THEN OptUintWith(v) ELSE OptUintNone]

\* the Metrics values that differ in what Fetch and FetchCores set besides the samples
MetricsKinds ==
    {[count |-> n, cpuInfo |-> ZeroCPUInfo, isTotals |-> TRUE] : n \in 0..MaxCores}
    \cup {[count |-> 0, cpuInfo |-> inf, isTotals |-> FALSE] : inf \in {ZeroCPUInfo, InfoOf(1)}}

MetricsOf(kind, prev, cur) ==
    [previousSample |-> prev, currentSample |-> cur, count |-> kind.count,
     cpuInfo |-> kind.cpuInfo, isTotals |-> kind.isTotals]

\* the inputs: every pair of samples whose user, idle and iowait counters take
\* every value, and every set of exposed counters against a previous sample
\* with none, the same, or all of the counters
FormatInit ==
    /\ lastSample = EmptyCPUMetrics
    /\ lastGood = EmptyCPUMetrics
    /\ call = "none"
    /\ err = NoErr
    /\ fmtArg = <<>>
    /\ formatted = <<>>
    /\ \E kind \in MetricsKinds :
          \/ \E pu \in OptTicks, pi \in OptTicks, pw \in OptTicks,
                cu \in OptTicks, ci \in OptTicks, cw \in OptTicks :
                metrics = <<MetricsOf(kind, NumericSample(pu, pi, pw),
                                      NumericSample(cu, ci, cw))>>
          \/ \E P \in SUBSET CPUFields, Q \in SUBSET CPUFields :
                /\ Q \in {{}, P, CPUFields}
                /\ metrics = <<MetricsOf(kind, PlatformSample(Q, 1),
                                         PlatformSample(P, MaxTick))>>

FormatOnce == call = "none" /\ FormatCall

FormatNext == FormatOnce

FormatSpec == FormatInit /\ [][FormatNext]_vars

----------------------------------------------------------------------------
(* Properties of Format *)

\* the Metrics value and the options of the most recent Format call
FormattedMetric == metrics[fmtArg[1]]
FormatOpts == fmtArg[2]

FormatSucceeded == call = "Format" /\ err = NoErr

\* the sum of the present counters, as a number (no machine width)
SumOfTicks(cpu) ==
    ValueOr(cpu.User, 0) + ValueOr(cpu.Sys, 0) + ValueOr(cpu.Idle, 0)
    + ValueOr(cpu.Nice, 0) + ValueOr(cpu.Irq, 0) + ValueOr(cpu.Wait, 0)
    + ValueOr(cpu.SoftIrq, 0) + ValueOr(cpu.Stolen, 0)

\* the window of a Metrics value, as a number: positive, zero or negative
WindowOf(m) == SumOfTicks(m.currentSample) - SumOfTicks(m.previousSample)

\* the signed difference of counter f, an absent counter counting as 0
DeltaOf(m, f) == ValueOr(m.currentSample[f], 0) - ValueOr(m.previousSample[f], 0)

AllOpts == [Ticks |-> TRUE, Percentages |-> TRUE, NormalizedPercentages |-> TRUE]
NoOpts == [Ticks |-> FALSE, Percentages |-> FALSE, NormalizedPercentages |-> FALSE]

\* C1: whenever total(current) <= total(previous) (equal or decreasing
\* totals), Format returns the stale-sample error and no output map, whatever
\* the three switches are.
StaleWindowFails ==
    (call = "Format" /\ WindowOf(FormattedMetric) <= 0)
        => (err = StaleErr /\ formatted = <<>>)

\* Companion of C1: with equal totals Format does fail, under every switch.
EqualTotalsFail ==
    (call = "Format" /\ WindowOf(FormattedMetric) = 0)
        => (err = StaleErr /\ formatted = <<>>)

\* Companion of C1: a Format call that renders decreasing totals without error.
DecreasingTotalsRendered ==
    FormatSucceeded /\ WindowOf(FormattedMetric) < 0 /\ formatted # <<>>

\* C5: when Format succeeds, the output has the key of a tick category iff
\* that category is present in the current sample, whatever the switches and
\* the previous sample are; an absent category is never emitted.
CategoryKeyIffPresent ==
    FormatSucceeded =>
        \A name \in DOMAIN CategoryField :
            (name \in DOMAIN formatted[1])
                <=> FormattedMetric.currentSample[CategoryField[name]].exists

\* a successful render of a sample that lacks user (present before) and has
\* idle (absent before) and a user-less, idle-zero reading
AbsentCategoryOmitted ==
    /\ FormatSucceeded
    /\ FormatOpts = AllOpts
    /\ ~FormattedMetric.currentSample.User.exists
    /\ FormattedMetric.previousSample.User.exists
    /\ FormattedMetric.currentSample.Wait = OptUintWith(0)
    /\ ~FormattedMetric.previousSample.Idle.exists
    /\ "user" \notin DOMAIN formatted[1]
    /\ "iowait" \in DOMAIN formatted[1]
    /\ "idle" \in DOMAIN formatted[1]

\* C6: where the total grew, every category present in current is emitted
\* with pct = round(delta_c / timeDelta * N) and norm.pct =
\* round(delta_c / timeDelta), N the core count of an aggregate Metrics and 1
\* for a per-core one, delta_c the signed difference of the counters (an
\* absent previous counting as 0): a counter that decreased gives a negative
\* ratio.
PctIsSignedRatio ==
    (FormatSucceeded /\ WindowOf(FormattedMetric) > 0) =>
        LET m == FormattedMetric
            N == IF m.isTotals THEN m.count ELSE 1
        IN  \A name \in DOMAIN CategoryField :
                m.currentSample[CategoryField[name]].exists =>
                    LET e == formatted[1][name]
                        d == DeltaOf(m, CategoryField[name])
                    IN  /\ FormatOpts.Percentages =>
                            e["pct"] = Round(d * N, WindowOf(m))
                        /\ FormatOpts.NormalizedPercentages =>
                            e["norm.pct"] = Round(d, WindowOf(m))

\* an aggregate render over two cores whose user counter decreased while the
\* total grew: the percentages are negative
NegativePctEmitted ==
    /\ FormatSucceeded
    /\ FormatOpts = AllOpts
    /\ FormattedMetric.isTotals
    /\ FormattedMetric.count = 2
    /\ WindowOf(FormattedMetric) > 0
    /\ DeltaOf(FormattedMetric, "User") < 0
    /\ FormattedMetric.currentSample.User.exists
    /\ formatted[1]["user"]["pct"] < 0
    /\ formatted[1]["user"]["norm.pct"] < 0
    /\ formatted[1]["user"]["pct"] # formatted[1]["user"]["norm.pct"]

\* the idle portion of the window at normalization count N: pct(idle) plus
\* pct(iowait), iowait counting only when the current sample has it
IdlePortion(m, N) ==
    Round(DeltaOf(m, "Idle") * N, TimeDelta(m))
    + (IF m.currentSample.Wait.exists
       THEN Round(DeltaOf(m, "Wait") * N, TimeDelta(m)) ELSE 0)

\* C7: the emitted total.pct is round(N - (pct(idle) + pct(iowait))), N the
\* normalization count, and total.norm.pct the same with N = 1; an iowait
\* absent from the current sample contributes nothing.
TotalIsBusyPortion ==
    FormatSucceeded =>
        LET m == FormattedMetric
            N == IF m.isTotals THEN m.count ELSE 1
        IN  /\ FormatOpts.Percentages =>
                formatted[1]["total.pct"]
                    = Round(N * RoundScale - IdlePortion(m, N), RoundScale)
            /\ FormatOpts.NormalizedPercentages =>
                formatted[1]["total.norm.pct"]
                    = Round(RoundScale - IdlePortion(m, 1), RoundScale)

\* a render whose current sample has no iowait while the previous one had
\* ticks in it: the total is what idle alone leaves
TotalWithoutIowait ==
    /\ FormatSucceeded
    /\ FormatOpts = AllOpts
    /\ FormattedMetric.isTotals
    /\ FormattedMetric.count = 2
    /\ ~FormattedMetric.currentSample.Wait.exists
    /\ ValueOr(FormattedMetric.previousSample.Wait, 0) > 0
    /\ WindowOf(FormattedMetric) > 0
    /\ FormattedMetric.currentSample.Idle.exists
    /\ formatted[1]["total.pct"] = 2 * RoundScale - formatted[1]["idle"]["pct"]
    /\ formatted[1]["total.norm.pct"] = RoundScale - formatted[1]["idle"]["norm.pct"]

\* the keys the switches o give an entry
EntryKeys(o) ==
    (IF o.Ticks THEN {"ticks"} ELSE {})
    \cup (IF o.Percentages THEN {"pct"} ELSE {})
    \cup (IF o.NormalizedPercentages THEN {"norm.pct"} ELSE {})

\* C9: under every combination of the switches a successful Format gives the
\* entry of each present category ticks iff Ticks, pct iff Percentages and
\* norm.pct iff NormalizedPercentages, and the output total.pct iff
\* Percentages and total.norm.pct iff NormalizedPercentages; with every switch
\* off the present categories appear with empty entries and no total.
SwitchesSelectKeys ==
    FormatSucceeded =>
        /\ \A name \in DOMAIN CategoryField :
               name \in DOMAIN formatted[1] =>
                   DOMAIN formatted[1][name] = EntryKeys(FormatOpts)
        /\ ("total.pct" \in DOMAIN formatted[1]) <=> FormatOpts.Percentages
        /\ ("total.norm.pct" \in DOMAIN formatted[1]) <=> FormatOpts.NormalizedPercentages
        /\ \A name \in DOMAIN CategoryField :
               FormattedMetric.currentSample[CategoryField[name]].exists =>
                   name \in DOMAIN formatted[1]

\* a render with every switch off: the present category is there, empty
EmptyEntriesEmitted ==
    /\ FormatSucceeded
    /\ FormatOpts = NoOpts
    /\ DOMAIN formatted[1] = {"user", "idle"}
    /\ formatted[1]["user"] = EmptyMap
    /\ formatted[1]["idle"] = EmptyMap

----------------------------------------------------------------------------
(* Properties of the Monitor *)

FetchKinds == {"Fetch", "FetchCores"}

\* C2: a Fetch or FetchCores whose collector fails returns an error wrapping
\* the collector's cause and no metrics, and leaves lastSample as it was before
\* the call, which is still the snapshot of the last successful collection.
FailedFetchKeepsState ==
    /\ [][(call' \in FetchKinds /\ err' # NoErr) =>
            /\ lastSample' = lastSample
            /\ err'.msg = "error fetching CPU metrics"
            /\ err'.wraps \in Causes
            /\ metrics' = IF call' = "Fetch" THEN <<ZeroMetrics>> ELSE <<>>]_vars
    /\ []((call \in FetchKinds /\ err # NoErr) => lastSample = lastGood)

\* a failed fetch after a successful one: the stored snapshot is still there
FailedFetchAfterSuccess ==
    /\ call \in FetchKinds
    /\ err # NoErr
    /\ lastSample # EmptyCPUMetrics
    /\ Len(lastSample.list) = 2

\* C3: every successful Fetch returns current = the new snapshot's totals,
\* previous = the totals of the snapshot of the most recent earlier successful
\* collection of either kind (all absent if there was none), count = the
\* number of cores of the new snapshot and isTotals = true, and leaves the
\* whole new snapshot in lastSample.
FetchPairsWithLastGood ==
    [][(call' = "Fetch" /\ err' = NoErr) =>
          /\ Len(metrics') = 1
          /\ metrics'[1].currentSample = lastGood'.totals
          /\ metrics'[1].previousSample = lastGood.totals
          /\ metrics'[1].count = Len(lastGood'.list)
          /\ metrics'[1].isTotals
          /\ lastSample' = lastGood']_vars

\* a successful Fetch of a two-core snapshot whose totals differ from those
\* of the snapshot collected before it
FetchAfterCollection ==
    /\ call = "Fetch"
    /\ err = NoErr
    /\ metrics[1].previousSample = EarlySample
    /\ metrics[1].currentSample = LateSample
    /\ metrics[1].count = 2
    /\ lastSample.totals = LateSample

\* C4: a successful FetchCores of a snapshot with n cores against a stored
\* snapshot with m cores returns n entries in core order; entry i has current
\* = the new core i, previous = the stored core i if i < m and the all-absent
\* sample otherwise, isTotals = false; lastSample becomes the new snapshot.
FetchCoresPairsByIndex ==
    [][(call' = "FetchCores" /\ err' = NoErr) =>
          /\ Len(metrics') = Len(lastGood'.list)
          /\ \A i \in 1..Len(metrics') :
                /\ metrics'[i].currentSample = lastGood'.list[i]
                /\ metrics'[i].previousSample =
                       IF i <= Len(lastSample.list) THEN lastSample.list[i] ELSE EmptyCPU
                /\ ~metrics'[i].isTotals
          /\ lastSample' = lastGood']_vars

\* the core count grew from one to two: the second entry has no previous
CoreCountGrew ==
    /\ call = "FetchCores"
    /\ err = NoErr
    /\ Len(metrics) = 2
    /\ metrics[1].previousSample = EarlySample
    /\ metrics[1].currentSample = LateSample
    /\ metrics[2].previousSample = EmptyCPU
    /\ metrics[2].currentSample = EarlySample
    /\ lastSample.list = <<LateSample, EarlySample>>

\* C4, the other two cases reached: the core count shrank, and stayed
CoreCountShrank ==
    /\ call = "FetchCores"
    /\ err = NoErr
    /\ Len(metrics) = 1
    /\ metrics[1].previousSample = EarlySample
    /\ metrics[1].currentSample = LateSample
    /\ Len(lastSample.list) = 1
CoreCountStayed ==
    /\ call = "FetchCores"
    /\ err = NoErr
    /\ Len(metrics) = 2
    /\ metrics[1].previousSample = LateSample
    /\ metrics[2].previousSample = EarlySample

\* C8: Format never changes the Monitor; when the render of a Metrics value
\* that Fetch returned fails as stale, lastSample holds the snapshot that Fetch
\* collected, and the next successful Fetch has that snapshot's totals as
\* previous.
StaleRenderKeepsAdvance ==
    /\ [][call' = "Format" => lastSample' = lastSample]_vars
    /\ []((call = "Format" /\ err = StaleErr /\ FormattedMetric.isTotals) =>
            /\ lastSample = lastGood
            /\ lastSample.totals = FormattedMetric.currentSample)
    /\ [][(call = "Format" /\ err = StaleErr /\ FormattedMetric.isTotals
            /\ call' = "Fetch" /\ err' = NoErr) =>
              metrics'[1].previousSample = FormattedMetric.currentSample]_vars

\* a fetched pair with equal totals failed to render; lastSample is the
\* snapshot of that fetch
StaleRenderAfterFetch ==
    /\ call = "Format"
    /\ err = StaleErr
    /\ formatted = <<>>
    /\ FormattedMetric.isTotals
    /\ FormattedMetric.previousSample = LateSample
    /\ FormattedMetric.currentSample = LateSample
    /\ lastSample.totals = LateSample

InfoKeys == {"model_number", "model_name", "mhz", "core_id", "physical_id"}

\* C10: FetchCores gives entry i the info record i of the new snapshot when
\* the snapshot has info and the zero CPUInfo otherwise; Format emits the
\* five info keys, verbatim, iff the Metrics is per-core and its CPUInfo is
\* not the zero value, and never for an aggregate Metrics.
InfoAttachedAndEmitted ==
    /\ (call = "FetchCores" /\ err = NoErr) =>
          \A i \in 1..Len(metrics) :
              metrics[i].cpuInfo =
                  IF lastGood.CPUInfo # <<>> THEN lastGood.CPUInfo[i] ELSE ZeroCPUInfo
    /\ FormatSucceeded =>
          LET m == FormattedMetric
              out == formatted[1]
          IN  IF ~m.isTotals /\ m.cpuInfo # ZeroCPUInfo
              THEN /\ InfoKeys \subseteq DOMAIN out
                   /\ out["model_number"] = m.cpuInfo.ModelNumber
                   /\ out["model_name"] = m.cpuInfo.ModelName
                   /\ out["mhz"] = m.cpuInfo.Mhz
                   /\ out["core_id"] = m.cpuInfo.CoreID
                   /\ out["physical_id"] = m.cpuInfo.PhysicalID
              ELSE InfoKeys \cap DOMAIN out = {}

\* of a two-core snapshot with info, the first core rendered with its info
\* while the second, whose info is zero, has none to render
InfoEmittedForCore ==
    /\ FormatSucceeded
    /\ Len(metrics) = 2
    /\ fmtArg[1] = 1
    /\ metrics[1].cpuInfo = InfoOf(1)
    /\ metrics[2].cpuInfo = ZeroCPUInfo
    /\ lastSample.CPUInfo = <<InfoOf(1), ZeroCPUInfo>>
    /\ formatted[1]["core_id"] = 1
    /\ formatted[1]["model_name"] = "cpu"

\* C10, the other case reached: a per-core render without info keys
ZeroInfoOmitted ==
    /\ FormatSucceeded
    /\ Len(metrics) = 2
    /\ fmtArg[1] = 2
    /\ lastSample.CPUInfo = <<InfoOf(1), ZeroCPUInfo>>
    /\ InfoKeys \cap DOMAIN formatted[1] = {}

====
